---- MODULE Spec2Model ----
\* Preprocessor-level model of secrets.h: the header is a sequence of
\* directives that a translation unit includes any number of times.
EXTENDS Integers, Sequences, FiniteSets, TLC

\* Number of #include "secrets.h" directives explored in one translation unit.
MaxIncludes == 12

Q == "\""

\* Directive records for the lines of secrets.h.
Ifndef(n) == [kind |-> "ifndef", name |-> n, body |-> <<>>]
Define(n, b) == [kind |-> "define", name |-> n, body |-> b]
Endif == [kind |-> "endif", name |-> "", body |-> <<>>]

SsidBody == <<Q, "Y","o","u","r","W","I","F","I", Q>>
PasswordBody == <<Q, "Y","o","u","r","P","a","s","s","w","o","r","d", Q>>
ApiKeyBody == <<Q, "Y","o","u","r","A","P","I","K","e","y", Q>>
CityBody == <<Q, "M","o","s","c","o","w",",","r","u", Q>>

HeaderMissingKey ==
  << Ifndef("SECRETS_H"), Define("SECRETS_H", <<>>),
     Define("SECRET_WIFI_SSID", SsidBody),
     Define("SECRET_WIFI_PASSWORD", PasswordBody),
     Define("SECRET_WEATHER_CITY", CityBody),
     Endif >>

HeaderBadCity ==
  << Ifndef("SECRETS_H"), Define("SECRETS_H", <<>>),
     Define("SECRET_WIFI_SSID", SsidBody),
     Define("SECRET_WIFI_PASSWORD", PasswordBody),
     Define("SECRET_WEATHER_API_KEY", ApiKeyBody),
     Define("SECRET_WEATHER_CITY", <<Q, "M","o","s","c","o","w",",","x","q", Q>>),
     Endif >>

HeaderEmptySsid ==
  << Ifndef("SECRETS_H"), Define("SECRETS_H", <<>>),
     Define("SECRET_WIFI_SSID", <<Q, Q>>),
     Define("SECRET_WIFI_PASSWORD", PasswordBody),
     Define("SECRET_WEATHER_API_KEY", ApiKeyBody),
     Define("SECRET_WEATHER_CITY", CityBody),
     Endif >>

Header ==
  << Ifndef("SECRETS_H"), Define("SECRETS_H", <<>>),
     Define("SECRET_WIFI_SSID", SsidBody),
     Define("SECRET_WIFI_PASSWORD", PasswordBody),
     Define("SECRET_WEATHER_API_KEY", ApiKeyBody),
     Define("SECRET_WEATHER_CITY", CityBody),
     Endif >>

\* Guard that ignores the include guard (the #ifndef always taken).
IfndefTakenNoGuard(n, m) == TRUE

\* #ifndef n: the group is processed when n is not a defined macro.
IfndefTaken(n, m) == n \notin DOMAIN m

\* Preprocessor state for one translation unit.
EmptyTU == [macros |-> <<>>, skipping |-> FALSE, redefs |-> 0, dup |-> FALSE]

\* Effect of one directive of the header on the translation-unit state.
Step(st, line) ==
  IF line.kind = "ifndef" THEN
    IF st.skipping THEN st
    ELSE [st EXCEPT !.skipping = ~IfndefTaken(line.name, st.macros)]
  ELSE IF line.kind = "define" THEN
    IF st.skipping THEN st
    ELSE IF line.name \in DOMAIN st.macros
      THEN [st EXCEPT !.macros = [st.macros EXCEPT ![line.name] = line.body],
                      !.redefs = st.redefs + 1,
                      !.dup = st.dup \/ st.macros[line.name] # line.body]
      ELSE [st EXCEPT !.macros = (line.name :> line.body) @@ st.macros]
  ELSE [st EXCEPT !.skipping = FALSE]

RECURSIVE RunLines(_, _)
RunLines(st, i) ==
  IF i > Len(Header) THEN st ELSE RunLines(Step(st, Header[i]), i + 1)

\* State after a single inclusion of the header into an empty unit.
OnceMacros == RunLines(EmptyTU, 1).macros

VARIABLES macros, skipping, redefs, dup, includes, pc

vars == <<macros, skipping, redefs, dup, includes, pc>>

Init ==
  /\ macros = <<>>
  /\ skipping = FALSE
  /\ redefs = 0
  /\ dup = FALSE
  /\ includes = 0
  /\ pc = 0

\* #include "secrets.h": start processing the header at its first line.
BeginInclude ==
  /\ pc = 0
  /\ includes < MaxIncludes
  /\ includes' = includes + 1
  /\ pc' = 1
  /\ UNCHANGED <<macros, skipping, redefs, dup>>

\* The preprocessor handles the header's line pc.
ProcessLine ==
  /\ pc \in 1..Len(Header)
  /\ LET st == Step([macros |-> macros, skipping |-> skipping,
                     redefs |-> redefs, dup |-> dup], Header[pc])
     IN /\ macros' = st.macros
        /\ skipping' = st.skipping
        /\ redefs' = st.redefs
        /\ dup' = st.dup
  /\ pc' = pc + 1
  /\ UNCHANGED includes

\* End of file of the header: return to the including unit.
EndInclude ==
  /\ pc = Len(Header) + 1
  /\ pc' = 0
  /\ UNCHANGED <<macros, skipping, redefs, dup, includes>>

Next == BeginInclude \/ ProcessLine \/ EndInclude

Spec == Init /\ [][Next]_vars

SecretNames == {"SECRET_WIFI_SSID", "SECRET_WIFI_PASSWORD",
                "SECRET_WEATHER_API_KEY", "SECRET_WEATHER_CITY"}

Included == pc = 0 /\ includes >= 1

IsStringLiteral(s) ==
  /\ Len(s) >= 2 /\ s[1] = Q /\ s[Len(s)] = Q
  /\ \A i \in 2..(Len(s) - 1) : s[i] # Q

Contents(s) == SubSeq(s, 2, Len(s) - 1)

Letters == {"a","b","c","d","e","f","g","h","i","j","k","l","m","n","o","p",
            "q","r","s","t","u","v","w","x","y","z",
            "A","B","C","D","E","F","G","H","I","J","K","L","M","N","O","P",
            "Q","R","S","T","U","V","W","X","Y","Z"}

\* ISO 3166-1 alpha-2 country codes (officially assigned), upper case.
IsoAlpha2 ==
  {<<"A","D">>, <<"A","E">>, <<"A","F">>, <<"A","G">>, <<"A","I">>, <<"A","L">>, <<"A","M">>, <<"A","O">>, <<"A","Q">>, <<"A","R">>,
   <<"A","S">>, <<"A","T">>, <<"A","U">>, <<"A","W">>, <<"A","X">>, <<"A","Z">>, <<"B","A">>, <<"B","B">>, <<"B","D">>, <<"B","E">>,
   <<"B","F">>, <<"B","G">>, <<"B","H">>, <<"B","I">>, <<"B","J">>, <<"B","L">>, <<"B","M">>, <<"B","N">>, <<"B","O">>, <<"B","Q">>,
   <<"B","R">>, <<"B","S">>, <<"B","T">>, <<"B","V">>, <<"B","W">>, <<"B","Y">>, <<"B","Z">>, <<"C","A">>, <<"C","C">>, <<"C","D">>,
   <<"C","F">>, <<"C","G">>, <<"C","H">>, <<"C","I">>, <<"C","K">>, <<"C","L">>, <<"C","M">>, <<"C","N">>, <<"C","O">>, <<"C","R">>,
   <<"C","U">>, <<"C","V">>, <<"C","W">>, <<"C","X">>, <<"C","Y">>, <<"C","Z">>, <<"D","E">>, <<"D","J">>, <<"D","K">>, <<"D","M">>,
   <<"D","O">>, <<"D","Z">>, <<"E","C">>, <<"E","E">>, <<"E","G">>, <<"E","H">>, <<"E","R">>, <<"E","S">>, <<"E","T">>, <<"F","I">>,
   <<"F","J">>, <<"F","K">>, <<"F","M">>, <<"F","O">>, <<"F","R">>, <<"G","A">>, <<"G","B">>, <<"G","D">>, <<"G","E">>, <<"G","F">>,
   <<"G","G">>, <<"G","H">>, <<"G","I">>, <<"G","L">>, <<"G","M">>, <<"G","N">>, <<"G","P">>, <<"G","Q">>, <<"G","R">>, <<"G","S">>,
   <<"G","T">>, <<"G","U">>, <<"G","W">>, <<"G","Y">>, <<"H","K">>, <<"H","M">>, <<"H","N">>, <<"H","R">>, <<"H","T">>, <<"H","U">>,
   <<"I","D">>, <<"I","E">>, <<"I","L">>, <<"I","M">>, <<"I","N">>, <<"I","O">>, <<"I","Q">>, <<"I","R">>, <<"I","S">>, <<"I","T">>,
   <<"J","E">>, <<"J","M">>, <<"J","O">>, <<"J","P">>, <<"K","E">>, <<"K","G">>, <<"K","H">>, <<"K","I">>, <<"K","M">>, <<"K","N">>,
   <<"K","P">>, <<"K","R">>, <<"K","W">>, <<"K","Y">>, <<"K","Z">>, <<"L","A">>, <<"L","B">>, <<"L","C">>, <<"L","I">>, <<"L","K">>,
   <<"L","R">>, <<"L","S">>, <<"L","T">>, <<"L","U">>, <<"L","V">>, <<"L","Y">>, <<"M","A">>, <<"M","C">>, <<"M","D">>, <<"M","E">>,
   <<"M","F">>, <<"M","G">>, <<"M","H">>, <<"M","K">>, <<"M","L">>, <<"M","M">>, <<"M","N">>, <<"M","O">>, <<"M","P">>, <<"M","Q">>,
   <<"M","R">>, <<"M","S">>, <<"M","T">>, <<"M","U">>, <<"M","V">>, <<"M","W">>, <<"M","X">>, <<"M","Y">>, <<"M","Z">>, <<"N","A">>,
   <<"N","C">>, <<"N","E">>, <<"N","F">>, <<"N","G">>, <<"N","I">>, <<"N","L">>, <<"N","O">>, <<"N","P">>, <<"N","R">>, <<"N","U">>,
   <<"N","Z">>, <<"O","M">>, <<"P","A">>, <<"P","E">>, <<"P","F">>, <<"P","G">>, <<"P","H">>, <<"P","K">>, <<"P","L">>, <<"P","M">>,
   <<"P","N">>, <<"P","R">>, <<"P","S">>, <<"P","T">>, <<"P","W">>, <<"P","Y">>, <<"Q","A">>, <<"R","E">>, <<"R","O">>, <<"R","S">>,
   <<"R","U">>, <<"R","W">>, <<"S","A">>, <<"S","B">>, <<"S","C">>, <<"S","D">>, <<"S","E">>, <<"S","G">>, <<"S","H">>, <<"S","I">>,
   <<"S","J">>, <<"S","K">>, <<"S","L">>, <<"S","M">>, <<"S","N">>, <<"S","O">>, <<"S","R">>, <<"S","S">>, <<"S","T">>, <<"S","V">>,
   <<"S","X">>, <<"S","Y">>, <<"S","Z">>, <<"T","C">>, <<"T","D">>, <<"T","F">>, <<"T","G">>, <<"T","H">>, <<"T","J">>, <<"T","K">>,
   <<"T","L">>, <<"T","M">>, <<"T","N">>, <<"T","O">>, <<"T","R">>, <<"T","T">>, <<"T","V">>, <<"T","W">>, <<"T","Z">>, <<"U","A">>,
   <<"U","G">>, <<"U","M">>, <<"U","S">>, <<"U","Y">>, <<"U","Z">>, <<"V","A">>, <<"V","C">>, <<"V","E">>, <<"V","G">>, <<"V","I">>,
   <<"V","N">>, <<"V","U">>, <<"W","F">>, <<"W","S">>, <<"Y","E">>, <<"Y","T">>, <<"Z","A">>, <<"Z","M">>, <<"Z","W">>}

\* Upper-case form of an ASCII letter.
Upper(ch) ==
  LET lo == <<"a","b","c","d","e","f","g","h","i","j","k","l","m","n","o","p","q","r","s","t","u","v","w","x","y","z">>
      up == <<"A","B","C","D","E","F","G","H","I","J","K","L","M","N","O","P","Q","R","S","T","U","V","W","X","Y","Z">>
  IN IF \E i \in 1..26 : lo[i] = ch THEN up[CHOOSE i \in 1..26 : lo[i] = ch] ELSE ch

\* C1: once the header has been included, exactly the four SECRET_* macros
\* are defined besides the guard SECRETS_H, each a non-empty string literal.
C1_FourNonEmptyLiterals ==
  Included =>
    /\ DOMAIN macros \ {"SECRETS_H"} = SecretNames
    /\ \A n \in SecretNames :
         IsStringLiteral(macros[n]) /\ Len(Contents(macros[n])) > 0

C1_Witness == Included /\ includes = 1

\* C2: including the header n >= 1 times leaves the same macros as including
\* it once, and no macro is ever defined a second time (no redefinition).
C2_IncludeIdempotent ==
  Included => macros = OnceMacros /\ redefs = 0 /\ ~dup

C2_Witness == Included /\ includes >= 3

\* C3: SECRET_WEATHER_CITY is "<City>,<CountryCode>": one comma, a non-empty
\* city before it and, after it, a two-letter ISO 3166-1 alpha-2 country
\* code (compared case-insensitively, as the template writes "ru").
C3_CityFormat ==
  Included =>
    LET c == Contents(macros["SECRET_WEATHER_CITY"])
        commas == {i \in 1..Len(c) : c[i] = ","}
    IN /\ Cardinality(commas) = 1
       /\ \E i \in commas :
            /\ i > 1
            /\ Len(c) - i = 2
            /\ c[i + 1] \in Letters /\ c[i + 2] \in Letters
            /\ <<Upper(c[i + 1]), Upper(c[i + 2])>> \in IsoAlpha2

C3_Witness == Included /\ "SECRET_WEATHER_CITY" \in DOMAIN macros

\* C4: SECRET_WIFI_SSID is a non-empty string literal and
\* SECRET_WIFI_PASSWORD is a string literal.
C4_SsidPassword ==
  Included =>
    /\ IsStringLiteral(macros["SECRET_WIFI_SSID"])
    /\ Len(Contents(macros["SECRET_WIFI_SSID"])) > 0
    /\ IsStringLiteral(macros["SECRET_WIFI_PASSWORD"])

C4_Witness == Included /\ "SECRET_WIFI_PASSWORD" \in DOMAIN macros

====
